---- MODULE Spec2Model ----
(***************************************************************************)
(* Model of bycycle's group orchestration layer                            *)
(* (bycycle/group/features.py: compute_features_2d, compute_features_3d,   *)
(* _proxy, _reshape_df) and of the burst classifier (bycycle/burst.py:     *)
(* detect_bursts_cycles, detect_bursts_amp, _min_consecutive_cycles).      *)
(*                                                                         *)
(* Python objects are modelled by reference where the code relies on it:   *)
(* the caller's configuration mappings live in `heap` (object id ->        *)
(* contents) and lists hold object ids, so dict.pop() on a list element    *)
(* changes the one object every holder of that id sees.                    *)
(***************************************************************************)
EXTENDS Integers, Sequences, FiniteSets, TLC

\* ---------------------------------------------------------------- bounds
\* largest number of signals in one call (n_signals, or n_groups * n_signals)
MaxSignals == 4
\* largest worker pool
MaxJobs == 2
\* largest number of cycles (rows) of a feature table
MaxCycles == 5
\* largest min_n_cycles
MaxMinCycles == 4

VARIABLES
    pc,              \* position of the caller: idle / collect / returned / raised
    fn,              \* entry point of the call: "2d" or "3d"
    sigs,            \* the caller's signal array (opaque signal identities)
    override,        \* the caller's compute_features_kwargs: kind, refs, given contents
    heap,            \* current contents of the caller's mapping objects
    return_samples,  \* caller-level flag
    n_jobs,          \* pool size after line 76 / 175
    bad,             \* signals on which the single-signal routine raises
    sigs_2d,         \* the flattened signals of a 3d call (line 178), <<>> before
    tasks,           \* the iterable handed to pool.imap, one entry per signal
    pool,            \* "none" / "open" / "terminated"
    taken,           \* number of tasks fetched from the task queue so far
    running,         \* task indices being computed by a worker
    cache,           \* task index -> outcome, as stored by the IMapIterator
    finish_order,    \* task indices in the order their outcomes arrived
    collected,       \* outcomes the caller has pulled out of the iterator, in order
    calls,           \* task index -> arguments the single-signal routine was invoked with
    df_features,     \* returned feature tables
    df_samples,      \* returned sample tables
    err,             \* the exception that ended the call and the line that raised it
    \* ---- burst classifier
    bpc,             \* idle / loop / done
    strategy,        \* "cycles" (detect_bursts_cycles) or "amp" (detect_bursts_amp)
    table,           \* df_features: one row of measures per cycle
    thresholds,      \* the caller's threshold parameters
    candidates,      \* is_burst as computed at line 72 / 105
    is_burst,        \* the object walked and written by _min_consecutive_cycles
    idx,             \* loop position of _min_consecutive_cycles (0-based)
    temp_cycle_count,
    min_n_cycles,
    column           \* the is_burst column written to df_features

gvars == <<pc, fn, sigs, override, heap, return_samples, n_jobs, bad, sigs_2d, tasks,
           pool, taken, running, cache, finish_order, collected, calls, df_features,
           df_samples, err>>
bvars == <<bpc, strategy, table, thresholds, candidates, is_burst, idx, temp_cycle_count,
           min_n_cycles, column>>
vars == <<gvars, bvars>>

\* ------------------------------------------------------- python helpers
Min(a, b) == IF a < b THEN a ELSE b

Max(a, b) == IF a > b THEN a ELSE b

\* range(start, stop, step) for step > 0, as a sequence
PyRange(start, stop, step) ==
    LET n == IF stop > start THEN (stop - start + step - 1) \div step ELSE 0
    IN  [k \in 1..n |-> start + (k - 1) * step]

\* zip(a, b): stops at the shorter one
PyZip(a, b) == [k \in 1..Min(Len(a), Len(b)) |-> <<a[k], b[k]>>]

\* seq[lower:upper] for 0 <= lower, 0 <= upper (0-based, upper clamped)
PySlice(seq, lower, upper) ==
    LET hi == Min(upper, Len(seq))
    IN  [k \in 1..Max(hi - lower, 0) |-> seq[lower + k]]

SeqRange(seq) == {seq[k] : k \in DOMAIN seq}

RECURSIVE Concat(_)
Concat(rows) == IF rows = <<>> THEN <<>> ELSE Head(rows) \o Concat(Tail(rows))

\* ------------------------------------------------- configuration mappings
Keys == {"sentinel", "return_samples"}

EmptyMap == [k \in {} |-> 0]

\* A mapping holding a sentinel parameter and, when withKey, an embedded
\* return_samples entry of value emb (Python's False/True as 0/1).
Mapping(tag, withKey, emb) ==
    [k \in (IF withKey THEN Keys ELSE {"sentinel"}) |->
        IF k = "sentinel" THEN tag ELSE emb]

\* dict.pop(key) guarded by `key in dict.keys()`
Pop(m, key) == [k \in DOMAIN m \ {key} |-> m[k]]

\* Contents of the mapping object `id`; id 0 is the fresh {} of line 61 / 157.
Deref(h, id) == IF id = 0 THEN EmptyMap ELSE h[id]

\* ------------------------------------------------- the single-signal routine
\* bycycle.features.compute_features(sig, fs, f_range, return_samples, **kwargs):
\* an external collaborator.  Its tables are opaque; they are modelled as the
\* arguments they were computed from.
FeatureTable(sig, kwargs) == [table |-> "features", sig |-> sig, kwargs |-> kwargs]

SampleTable(sig, kwargs) == [table |-> "samples", sig |-> sig, kwargs |-> kwargs]

ComputeFeatures(sig, flag, kwargs) ==
    IF flag THEN <<FeatureTable(sig, kwargs), SampleTable(sig, kwargs)>>
            ELSE FeatureTable(sig, kwargs)

\* the arguments of one invocation of the routine
Invocation(sig, flag, kwargs) == [sig |-> sig, return_samples |-> flag, kwargs |-> kwargs]

\* _proxy (lines 207-212): args is one element of zip(sigs, kwargs)
_proxy(args, flag) ==
    LET sig == args[1]
        kwargs == Tail(args)
    IN  Invocation(sig, flag, kwargs[1])

\* ------------------------------------------------------------ inputs
\* Signals are opaque to the orchestration layer: each carries an identity.
Sigs2d(n) == [i \in 1..n |-> i]

Sigs3d(G, S) == [g \in 1..G |-> [s \in 1..S |-> 10 * g + s]]

Shapes == {gs \in (1..MaxSignals) \X (1..MaxSignals) : gs[1] * gs[2] <= MaxSignals}

\* The caller's mapping objects 1..n.  Object k holds sentinel k, so any two
\* objects differ; the objects in `keyed` also hold a return_samples entry.
HeapOf(n, keyed, emb) == [k \in 1..n |-> Mapping(k, k \in keyed, emb)]

\* which objects carry the embedded key: none, all, or a single one
KeyedSets(n) == {{}, 1..n} \cup {{k} : k \in 1..n}

Heaps(n) == {HeapOf(n, keyed, emb) : keyed \in KeyedSets(n), emb \in {0, 1}}

NoOverride == [kind |-> "none", refs |-> <<>>, given |-> <<>>]

DictOverrides == {[kind |-> "dict", refs |-> <<1>>, given |-> h] : h \in Heaps(1)}

\* a 1-D list of `len` mappings; validation reads the length only, so lists of
\* a wrong length are enumerated with one content
ListOverrides(len, exact) ==
    {[kind |-> "list", refs |-> [k \in 1..len |-> k], given |-> h] :
        h \in IF exact THEN Heaps(len) ELSE {HeapOf(len, {}, 0)}}

\* a 2-D nested list of shape (outer, inner)
NestedOverrides(outer, inner, exact) ==
    {[kind |-> "nested",
      refs |-> [g \in 1..outer |-> [s \in 1..inner |-> (g - 1) * inner + s]],
      given |-> h] :
        h \in IF exact THEN Heaps(outer * inner) ELSE {HeapOf(outer * inner, {}, 0)}}

\* the lengths and shapes an override can have: those of the signals and the
\* others, shorter and longer, up to one past the bound
ListLengths == 0..(MaxSignals + 1)

NestedShapes ==
    {oi \in (1..(MaxSignals + 1)) \X (0..(MaxSignals + 1)) : oi[1] * oi[2] <= MaxSignals + 1}

Overrides2d(n) ==
    {NoOverride} \cup DictOverrides
        \cup UNION {ListOverrides(len, len = n) : len \in ListLengths}

Overrides3d(G, S) ==
    {NoOverride} \cup DictOverrides
        \cup UNION {ListOverrides(len, len = G) : len \in ListLengths}
        \cup UNION {NestedOverrides(oi[1], oi[2], oi = <<G, S>>) : oi \in NestedShapes}

\* the signals on which the single-signal routine raises: none or one
BadSets(sigset) == {{}} \cup {{x} : x \in sigset}

\* ------------------------------------------------- exceptions
NoError == [type |-> "", line |-> 0]

\* raise ValueError(...) at the given line of group/features.py
ValueErrorAt(line) == [type |-> "ValueError", line |-> line]

\* the exception of a failed task, re-raised where the caller iterates the results
WorkerErrorAt(line) == [type |-> "WorkerError", line |-> line]

\* ------------------------------------------------- compute_features_2d
\* the length check with > in place of != : a list that is too short passes
LengthMismatch2dLongerOnly(kwargs, batch) ==
    kwargs.kind = "list" /\ Len(kwargs.refs) > Len(batch)

\* line 57: the length check
LengthMismatch2d(kwargs, batch) ==
    kwargs.kind = "list" /\ Len(kwargs.refs) # Len(batch)

\* lines 60-61: None becomes a fresh {}
DefaultKwargs(kwargs) ==
    IF kwargs.kind = "none" THEN [kind |-> "dict", refs |-> <<0>>] ELSE kwargs

\* the strip without its list branch: only a single dict is cleaned
StripReturnSamplesDictOnly(h, kwargs) ==
    IF kwargs.kind = "dict"
    THEN [id \in DOMAIN h |->
            IF id = kwargs.refs[1] THEN Pop(h[id], "return_samples") ELSE h[id]]
    ELSE h

\* lines 65-74: pop return_samples from every mapping of the list, or from the dict
StripReturnSamples(h, kwargs) ==
    IF kwargs.kind = "list"
    THEN [id \in DOMAIN h |->
            IF id \in SeqRange(kwargs.refs) THEN Pop(h[id], "return_samples") ELSE h[id]]
    ELSE IF kwargs.kind = "dict"
    THEN [id \in DOMAIN h |->
            IF id = kwargs.refs[1] THEN Pop(h[id], "return_samples") ELSE h[id]]
    ELSE h

\* the list branch handing every signal the first mapping of the list
ImapTasksFirstKwargs(batch, kwargs, h) ==
    [k \in DOMAIN batch |->
        [func |-> IF kwargs.kind = "list" THEN "_proxy" ELSE "compute_features",
         args |-> <<batch[k], Deref(h, kwargs.refs[1])>>]]

\* lines 80-90: the function and the iterable handed to pool.imap.  A task's
\* arguments are pickled for the worker, so it holds the mappings' contents.
ImapTasks(batch, kwargs, h) ==
    IF kwargs.kind = "list"
    THEN LET zipped == PyZip(batch, kwargs.refs)
         IN  [k \in DOMAIN zipped |->
                [func |-> "_proxy", args |-> <<zipped[k][1], Deref(h, zipped[k][2])>>]]
    ELSE [k \in DOMAIN batch |->
                [func |-> "compute_features",
                 args |-> <<batch[k], Deref(h, kwargs.refs[1])>>]]

\* what a worker does with one task: the invocation of the single-signal routine
WorkerCall(task, flag) ==
    IF task.func = "_proxy"
    THEN _proxy(task.args, flag)
    ELSE Invocation(task.args[1], flag, task.args[2])

\* a worker that swallows the routine's exception and sends a table back
WorkerOutcomeBestEffort(call, badset) ==
    [ok |-> TRUE, value |-> ComputeFeatures(call.sig, call.return_samples, call.kwargs)]

\* the (success, value) pair a worker sends back
WorkerOutcome(call, badset) ==
    IF call.sig \in badset
    THEN [ok |-> FALSE, value |-> "exception"]
    ELSE [ok |-> TRUE, value |-> ComputeFeatures(call.sig, call.return_samples, call.kwargs)]

\* pool.imap_unordered in place of pool.imap: outcomes are handed out as they arrive
NextReadyUnordered(got, arrived) ==
    IF Len(got) < Len(arrived) THEN arrived[Len(got) + 1] ELSE 0

\* IMapIterator.next() of pool.imap: the index of the outcome handed to the
\* caller after `got` results, 0 while that outcome has not arrived.  imap
\* hands the outcomes out in submission order.
NextReady(got, arrived) ==
    IF Len(got) + 1 \in SeqRange(arrived) THEN Len(got) + 1 ELSE 0

\* lines 92-99: zip(*results) when return_samples, list(results) otherwise
UnzipFeatures(results, flag) ==
    IF flag THEN [k \in DOMAIN results |-> results[k][1]] ELSE results

UnzipSamples(results, flag) ==
    IF flag THEN [k \in DOMAIN results |-> results[k][2]] ELSE <<>>

\* lines 57-90 as one step of the caller: validate, strip, open the pool, submit
Enter2d(batch, kwargs, h) ==
    IF LengthMismatch2d(kwargs, batch)
    THEN /\ pc' = "raised"
         /\ err' = ValueErrorAt(58)
         /\ heap' = h
         /\ tasks' = <<>>
         /\ pool' = "none"
    ELSE LET kw == DefaultKwargs(kwargs)
             h2 == StripReturnSamples(h, kw)
         IN  /\ pc' = "collect"
             /\ err' = NoError
             /\ heap' = h2
             /\ tasks' = ImapTasks(batch, kw, h2)
             /\ pool' = "open"

Call2d ==
    /\ pc = "idle"
    /\ \E n \in 1..MaxSignals, flag \in BOOLEAN, jobs \in 1..MaxJobs :
       \E ov \in Overrides2d(n), b \in BadSets(SeqRange(Sigs2d(n))) :
          /\ fn' = "2d"
          /\ sigs' = Sigs2d(n)
          /\ override' = ov
          /\ return_samples' = flag
          /\ n_jobs' = jobs
          /\ bad' = b
          /\ Enter2d(Sigs2d(n), [kind |-> ov.kind, refs |-> ov.refs], ov.given)
    /\ UNCHANGED <<sigs_2d, taken, running, cache, finish_order, collected, calls,
                   df_features, df_samples>>
    /\ UNCHANGED bvars

\* a free worker fetches the next task of the queue and invokes the routine
WorkerTake ==
    /\ pc = "collect"
    /\ pool = "open"
    /\ taken < Len(tasks)
    /\ Cardinality(running) < n_jobs
    /\ taken' = taken + 1
    /\ running' = running \cup {taken + 1}
    /\ calls' = calls @@ ((taken + 1) :> WorkerCall(tasks[taken + 1], return_samples))
    /\ UNCHANGED <<pc, fn, sigs, override, heap, return_samples, n_jobs, bad, sigs_2d,
                   tasks, pool, cache, finish_order, collected, df_features, df_samples,
                   err>>
    /\ UNCHANGED bvars

\* some worker finishes (in any order) and its outcome reaches the iterator
WorkerFinish ==
    /\ pc = "collect"
    /\ pool = "open"
    /\ \E i \in running :
          /\ running' = running \ {i}
          /\ cache' = cache @@ (i :> WorkerOutcome(calls[i], bad))
          /\ finish_order' = Append(finish_order, i)
    /\ UNCHANGED <<pc, fn, sigs, override, heap, return_samples, n_jobs, bad, sigs_2d,
                   tasks, pool, taken, collected, calls, df_features, df_samples, err>>
    /\ UNCHANGED bvars

\* a pool that is never torn down: Pool(...) used without the with-block
ExitPoolLeaking(workers) == [pool |-> "open", running |-> workers]

\* the end of the with-block of line 78, on a return and on an exception alike:
\* Pool.__exit__ terminates the pool, which stops and joins its workers
ExitPool(workers) == [pool |-> "terminated", running |-> {}]

\* the caller pulls the next result (lines 93 / 99); a failed task's exception
\* is re-raised and the with-block terminates the pool
Collect ==
    /\ pc = "collect"
    /\ Len(collected) < Len(tasks)
    /\ NextReady(collected, finish_order) # 0
    /\ LET outcome == cache[NextReady(collected, finish_order)]
       IN  IF outcome.ok
           THEN /\ collected' = Append(collected, outcome.value)
                /\ UNCHANGED <<pc, pool, running, err>>
           ELSE /\ pc' = "raised"
                /\ err' = WorkerErrorAt(IF return_samples THEN 93 ELSE 99)
                /\ pool' = ExitPool(running).pool
                /\ running' = ExitPool(running).running
                /\ UNCHANGED collected
    /\ UNCHANGED <<fn, sigs, override, heap, return_samples, n_jobs, bad, sigs_2d, tasks,
                   taken, cache, finish_order, calls, df_features, df_samples>>
    /\ UNCHANGED bvars

\* ------------------------------------------------- compute_features_3d
\* lines 154-157: a list becomes an array; its ndim and shape
KwargsIsArray(kwargs) == kwargs.kind \in {"list", "nested"}

KwargsNdim(kwargs) == IF kwargs.kind = "nested" THEN 2 ELSE 1

KwargsShape(kwargs) ==
    IF kwargs.kind = "nested"
    THEN <<Len(kwargs.refs), Len(kwargs.refs[1])>>
    ELSE <<Len(kwargs.refs)>>

SigsShape(sigs_3d) == <<Len(sigs_3d), Len(sigs_3d[1])>>

\* the shape check without the comparison of the second dimension
ShapeMismatch3dOuterOnly(kwargs, sigs_3d) ==
    /\ KwargsIsArray(kwargs)
    /\ KwargsShape(kwargs)[1] # SigsShape(sigs_3d)[1]

\* lines 160-173: the shape check
ShapeMismatch3d(kwargs, sigs_3d) ==
    /\ KwargsIsArray(kwargs)
    /\ \/ KwargsNdim(kwargs) = 1 /\ KwargsShape(kwargs)[1] # SigsShape(sigs_3d)[1]
       \/ KwargsNdim(kwargs) = 2 /\ KwargsShape(kwargs)[1] # SigsShape(sigs_3d)[1]
       \/ KwargsNdim(kwargs) = 2 /\ KwargsShape(kwargs)[2] # SigsShape(sigs_3d)[2]

\* line 178: sigs.reshape(G * S, N), row-major
ReshapeSigs(sigs_3d) == Concat(sigs_3d)

\* the whole 1-D list tiled S times in place of each element repeated S times
RepeatKwargsTiled(refs, sigs_3d) ==
    [s \in 1..SigsShape(sigs_3d)[2] |-> refs]

\* line 183: each kwarg repeated for every signal of its group
RepeatKwargs(refs, sigs_3d) ==
    [g \in DOMAIN refs |-> [s \in 1..SigsShape(sigs_3d)[2] |-> refs[g]]]

\* the flatten without line 183: a 1-D list is handed on as it is
FlattenKwargsNoRepeat(kwargs, sigs_3d) ==
    IF KwargsIsArray(kwargs) /\ KwargsNdim(kwargs) = 1
    THEN [kind |-> "list", refs |-> kwargs.refs]
    ELSE IF KwargsIsArray(kwargs)
    THEN [kind |-> "list", refs |-> Concat(kwargs.refs)]
    ELSE kwargs

\* lines 181-187: the kwargs handed to compute_features_2d
FlattenKwargs(kwargs, sigs_3d) ==
    IF KwargsIsArray(kwargs) /\ KwargsNdim(kwargs) = 1
    THEN [kind |-> "list", refs |-> Concat(RepeatKwargs(kwargs.refs, sigs_3d))]
    ELSE IF KwargsIsArray(kwargs)
    THEN [kind |-> "list", refs |-> Concat(kwargs.refs)]
    ELSE kwargs

\* _reshape_df, lines 215-228
_reshape_df(df, sigs_3d) ==
    LET dim_b == SigsShape(sigs_3d)[2]
        max_idx == PyRange(dim_b, Len(df) * dim_b, dim_b)
        min_idx == PyRange(0, Len(df), dim_b)
        bounds == PyZip(min_idx, max_idx)
    IN  [k \in DOMAIN bounds |-> PySlice(df, bounds[k][1], bounds[k][2])]

Call3d ==
    /\ pc = "idle"
    /\ \E gs \in Shapes, flag \in BOOLEAN, jobs \in 1..MaxJobs :
       \E ov \in Overrides3d(gs[1], gs[2]),
          b \in BadSets(SeqRange(Concat(Sigs3d(gs[1], gs[2])))) :
          LET sigs_3d == Sigs3d(gs[1], gs[2])
              kwargs == [kind |-> ov.kind, refs |-> ov.refs]
          IN  /\ fn' = "3d"
              /\ sigs' = sigs_3d
              /\ override' = ov
              /\ return_samples' = flag
              /\ n_jobs' = jobs
              /\ bad' = b
              /\ IF ShapeMismatch3d(kwargs, sigs_3d)
                 THEN /\ pc' = "raised"
                      /\ err' = ValueErrorAt(IF KwargsNdim(kwargs) = 1 THEN 164 ELSE 171)
                      /\ heap' = ov.given
                      /\ sigs_2d' = <<>>
                      /\ tasks' = <<>>
                      /\ pool' = "none"
                 ELSE /\ sigs_2d' = ReshapeSigs(sigs_3d)
                      /\ Enter2d(ReshapeSigs(sigs_3d), FlattenKwargs(kwargs, sigs_3d),
                                 ov.given)
    /\ UNCHANGED <<taken, running, cache, finish_order, collected, calls, df_features,
                   df_samples>>
    /\ UNCHANGED bvars

\* the iterator is exhausted: the with-block ends, the results are unzipped
\* (lines 92-104) and, for a 3d call, refolded (lines 193-204)
Return ==
    /\ pc = "collect"
    /\ Len(collected) = Len(tasks)
    /\ pc' = "returned"
    /\ pool' = ExitPool(running).pool
    /\ running' = ExitPool(running).running
    /\ LET features_2d == UnzipFeatures(collected, return_samples)
           samples_2d == UnzipSamples(collected, return_samples)
       IN  IF fn = "3d"
           THEN /\ df_features' = _reshape_df(features_2d, sigs)
                /\ df_samples' = IF return_samples THEN _reshape_df(samples_2d, sigs)
                                                   ELSE <<>>
           ELSE /\ df_features' = features_2d
                /\ df_samples' = samples_2d
    /\ UNCHANGED <<fn, sigs, override, heap, return_samples, n_jobs, bad, sigs_2d, tasks,
                   taken, cache, finish_order, collected, calls, err>>
    /\ UNCHANGED bvars

\* ------------------------------------------------------- burst classifier
\* The object bound to is_burst is a Python list in detect_bursts_amp (line 105)
\* and a pandas Series in detect_bursts_cycles (line 72).  Both are kept as an
\* index (the labels; positions 0..n-1 for a list) and the values in order.
PyList(values) ==
    [kind |-> "list", index |-> [k \in DOMAIN values |-> k - 1], values |-> values]

\* a Series carrying the default RangeIndex of the feature table
Series(values) ==
    [kind |-> "series", index |-> [k \in DOMAIN values |-> k - 1], values |-> values]

\* positions (1-based) of the Series holding label `key`
LabelPositions(obj, key) == {k \in DOMAIN obj.index : obj.index[k] = key}

\* obj[key] = value.  A list is indexed by position and a negative key counts
\* from the end.  A Series with an integer index is indexed by label: a label
\* that is present is overwritten, a label that is absent is added at the end
\* (pandas' setting with enlargement).
SetItem(obj, key, value) ==
    IF obj.kind = "list"
    THEN LET pos == IF key >= 0 THEN key + 1 ELSE Len(obj.values) + key + 1
         IN  [obj EXCEPT !.values[pos] = value]
    ELSE IF LabelPositions(obj, key) # {}
    THEN [obj EXCEPT !.values =
            [k \in DOMAIN obj.values |->
                IF k \in LabelPositions(obj, key) THEN value ELSE obj.values[k]]]
    ELSE [obj EXCEPT !.index = Append(obj.index, key),
                     !.values = Append(obj.values, value)]

\* df_features['is_burst'] = obj (lines 78 / 107): a list is stored as it is,
\* a Series is aligned on the table's index 0..n-1
AssignColumn(obj, n) ==
    IF obj.kind = "list"
    THEN obj.values
    ELSE [k \in 1..n |-> obj.values[CHOOSE p \in LabelPositions(obj, k - 1) : TRUE]]

Measures == {"amp_fraction", "amp_consistency", "period_consistency", "monotonicity"}

\* measures and thresholds take the levels 0 < 1 < 2
PassingRow == [m \in Measures |-> 2]

WeakRow(measure, level) == [m \in Measures |-> IF m = measure THEN level ELSE 2]

\* tables of n rows: passing rows and rows weak in one measure
CycleTables(n) ==
    UNION {[1..n -> {PassingRow, WeakRow(measure, level)}] :
            measure \in Measures, level \in {0, 1}}

AmpTables(n) == [1..n -> [{"burst_fraction"} -> 0..2]]

\* the comparisons with >= in place of > : a measure equal to its threshold passes
CycleCandidatesAtLeast(df, thr) ==
    [k \in DOMAIN df |->
        /\ df[k]["amp_fraction"] >= thr["amp_fraction"]
        /\ df[k]["amp_consistency"] >= thr["amp_consistency"]
        /\ df[k]["period_consistency"] >= thr["period_consistency"]
        /\ df[k]["monotonicity"] >= thr["monotonicity"]]

\* lines 66-72: the four comparisons and their conjunction
CycleCandidates(df, thr) ==
    [k \in DOMAIN df |->
        /\ df[k]["amp_fraction"] > thr["amp_fraction"]
        /\ df[k]["amp_consistency"] > thr["amp_consistency"]
        /\ df[k]["period_consistency"] > thr["period_consistency"]
        /\ df[k]["monotonicity"] > thr["monotonicity"]]

\* lines 75-76: is_burst[0] = False; is_burst[-1] = False
BoundaryPolicy(obj) == SetItem(SetItem(obj, 0, FALSE), -1, FALSE)

\* line 105
AmpCandidates(df, thr) ==
    [k \in DOMAIN df |-> df[k]["burst_fraction"] >= thr["burst_fraction"]]

\* detect_bursts_cycles up to the call of _min_consecutive_cycles
DetectBurstsCycles ==
    /\ bpc = "idle"
    /\ \E n \in 1..MaxCycles, t \in 0..1, m \in 1..MaxMinCycles :
       \E df \in CycleTables(n) :
          LET thr == [x \in Measures |-> t]
          IN  /\ strategy' = "cycles"
              /\ table' = df
              /\ thresholds' = thr
              /\ min_n_cycles' = m
              /\ candidates' = CycleCandidates(df, thr)
              /\ is_burst' = BoundaryPolicy(Series(CycleCandidates(df, thr)))
    /\ bpc' = "loop"
    /\ idx' = 0
    /\ temp_cycle_count' = 0
    /\ UNCHANGED column
    /\ UNCHANGED gvars

\* detect_bursts_amp up to the call of _min_consecutive_cycles
DetectBurstsAmp ==
    /\ bpc = "idle"
    /\ \E n \in 1..MaxCycles, t \in 1..2, m \in 1..MaxMinCycles :
       \E df \in AmpTables(n) :
          LET thr == [x \in {"burst_fraction"} |-> t]
          IN  /\ strategy' = "amp"
              /\ table' = df
              /\ thresholds' = thr
              /\ min_n_cycles' = m
              /\ candidates' = AmpCandidates(df, thr)
              /\ is_burst' = PyList(AmpCandidates(df, thr))
    /\ bpc' = "loop"
    /\ idx' = 0
    /\ temp_cycle_count' = 0
    /\ UNCHANGED column
    /\ UNCHANGED gvars

\* the clear leaving the oldest flag of the run: range(temp_cycle_count - 1)
ClearedKeysOneLess(i, count) == [c_rm \in 1..(count - 1) |-> i - 1 - (c_rm - 1)]

\* the clear starting at the current position: idx - c_rm
ClearedKeysShifted(i, count) == [c_rm \in 1..count |-> i - (c_rm - 1)]

\* lines 124-126: the keys written when a run of `count` flags ends at idx
ClearedKeys(i, count) == [c_rm \in 1..count |-> i - 1 - (c_rm - 1)]

\* the comparison with <= in place of < : a run of exactly m flags is cleared
ShortRunInclusive(count, m) == count <= m

\* line 124: the run that has just ended is shorter than the minimum
ShortRun(count, m) == count < m

\* a step that fills the gap after a short run instead of clearing the run:
\* the flag that ended the run is set
ClearAllFillsGap(obj, keys) ==
    IF keys = <<>> THEN obj ELSE SetItem(obj, Head(keys) + 1, TRUE)

RECURSIVE ClearAll(_, _)
ClearAll(obj, keys) ==
    IF keys = <<>> THEN obj ELSE ClearAll(SetItem(obj, Head(keys), FALSE), Tail(keys))

\* one iteration of the loop of _min_consecutive_cycles (lines 117-128)
MinConsecutiveStep ==
    /\ bpc = "loop"
    /\ idx < Len(is_burst.values)
    /\ LET bursting == is_burst.values[idx + 1]
       IN  IF bursting
           THEN /\ temp_cycle_count' = temp_cycle_count + 1
                /\ UNCHANGED is_burst
           ELSE /\ is_burst' = IF ShortRun(temp_cycle_count, min_n_cycles)
                                THEN ClearAll(is_burst, ClearedKeys(idx, temp_cycle_count))
                                ELSE is_burst
                /\ temp_cycle_count' = 0
    /\ idx' = idx + 1
    /\ UNCHANGED <<bpc, strategy, table, thresholds, candidates, min_n_cycles, column>>
    /\ UNCHANGED gvars

\* the loop is over: line 130 returns is_burst and the caller stores the column
MinConsecutiveReturn ==
    /\ bpc = "loop"
    /\ idx = Len(is_burst.values)
    /\ bpc' = "done"
    /\ column' = AssignColumn(is_burst, Len(table))
    /\ UNCHANGED <<strategy, table, thresholds, candidates, is_burst, idx,
                   temp_cycle_count, min_n_cycles>>
    /\ UNCHANGED gvars

\* ------------------------------------------------------- specification
Init ==
    /\ pc = "idle"
    /\ fn = ""
    /\ sigs = <<>>
    /\ override = NoOverride
    /\ heap = <<>>
    /\ return_samples = TRUE
    /\ n_jobs = 1
    /\ bad = {}
    /\ sigs_2d = <<>>
    /\ tasks = <<>>
    /\ pool = "none"
    /\ taken = 0
    /\ running = {}
    /\ cache = <<>>
    /\ finish_order = <<>>
    /\ collected = <<>>
    /\ calls = <<>>
    /\ df_features = <<>>
    /\ df_samples = <<>>
    /\ err = NoError
    /\ bpc = "idle"
    /\ strategy = ""
    /\ table = <<>>
    /\ thresholds = <<>>
    /\ candidates = <<>>
    /\ is_burst = PyList(<<>>)
    /\ idx = 0
    /\ temp_cycle_count = 0
    /\ min_n_cycles = 0
    /\ column = <<>>

Next ==
    \/ Call2d
    \/ Call3d
    \/ WorkerTake
    \/ WorkerFinish
    \/ Collect
    \/ Return

Spec == Init /\ [][Next]_vars

BurstNext ==
    \/ DetectBurstsCycles
    \/ DetectBurstsAmp
    \/ MinConsecutiveStep
    \/ MinConsecutiveReturn

BurstSpec == Init /\ [][BurstNext]_vars

\* ------------------------------------------------------- properties
\* number of groups and signals per group of a 3d call
GroupCount == Len(sigs)

BatchSize == Len(sigs[1])

\* a mapping without its return_samples entry
Stripped(m) == [k \in {x \in DOMAIN m : x # "return_samples"} |-> m[k]]

\* the configuration signal i of a 2d call is to be computed with
ExpectedKwargs2d(i) ==
    IF override.kind = "list" THEN Stripped(override.given[override.refs[i]])
    ELSE IF override.kind = "dict" THEN Stripped(override.given[override.refs[1]])
    ELSE EmptyMap

\* the configuration signal (g, s) of a 3d call is to be computed with
ExpectedKwargs3d(g, s) ==
    IF override.kind = "nested" THEN Stripped(override.given[override.refs[g][s]])
    ELSE IF override.kind = "list" THEN Stripped(override.given[override.refs[g]])
    ELSE IF override.kind = "dict" THEN Stripped(override.given[override.refs[1]])
    ELSE EmptyMap

\* the signals of the call, as a set
SignalSet ==
    IF fn = "3d" THEN {sigs[g][s] : g \in 1..GroupCount, s \in 1..BatchSize}
    ELSE SeqRange(sigs)

\* C1: a compute_features_2d call that returns, returns exactly one feature
\* table (and, with return_samples, one sample table) per signal, and the i-th
\* table is the routine's result for signal i, whatever the pool size and the
\* order in which the workers finished.
C1_OrderPreserved ==
    (pc = "returned" /\ fn = "2d") =>
        /\ Len(df_features) = Len(sigs)
        /\ \A i \in 1..Len(sigs) :
              df_features[i] = FeatureTable(sigs[i], ExpectedKwargs2d(i))
        /\ return_samples =>
              /\ Len(df_samples) = Len(sigs)
              /\ \A i \in 1..Len(sigs) :
                    df_samples[i] = SampleTable(sigs[i], ExpectedKwargs2d(i))

\* a 2d call of three or more signals returned both tables although the
\* workers did not finish in submission order
C1_Witness ==
    /\ pc = "returned"
    /\ fn = "2d"
    /\ return_samples
    /\ Len(sigs) >= 3
    /\ n_jobs >= 2
    /\ finish_order[1] # 1
    /\ Len(df_features) = Len(sigs)

\* C2: a compute_features_3d call on a group of shape (G, S, N) that returns,
\* returns G chunks of S tables each, chunk g element s being the flat result
\* at index g*S + s, i.e. the result for sigs[g][s]; the same for the samples.
C2_RefoldRoundTrip ==
    (pc = "returned" /\ fn = "3d") =>
        LET flat_features == UnzipFeatures(collected, return_samples)
            flat_samples == UnzipSamples(collected, return_samples)
            Refolded(out, flat) ==
                /\ Len(out) = GroupCount
                /\ \A g \in 1..GroupCount :
                      /\ Len(out[g]) = BatchSize
                      /\ \A s \in 1..BatchSize :
                            /\ out[g][s] = flat[(g - 1) * BatchSize + s]
                            /\ out[g][s].sig = sigs[g][s]
        IN  /\ Refolded(df_features, flat_features)
            /\ return_samples => Refolded(df_samples, flat_samples)

\* C3: in compute_features_2d a list override whose length differs from the
\* number of signals makes the call raise ValueError with no pool created and
\* the routine never invoked; any other override does not raise ValueError.
C3_FailFast2d ==
    fn = "2d" =>
        LET mismatch == override.kind = "list" /\ Len(override.refs) # Len(sigs)
        IN  /\ mismatch =>
                /\ pc = "raised"
                /\ err.type = "ValueError"
                /\ pool = "none"
                /\ tasks = <<>>
                /\ taken = 0
                /\ DOMAIN calls = {}
            /\ ~mismatch => err.type # "ValueError"

\* a 2d call with a list shorter than the batch has raised
C3_Witness ==
    /\ fn = "2d"
    /\ pc = "raised"
    /\ err = ValueErrorAt(58)
    /\ override.kind = "list"
    /\ Len(override.refs) = Len(sigs) - 1
    /\ Len(override.refs) >= 1

\* C4: in compute_features_3d a 1-D list whose length differs from G, or a
\* nested list whose outer length differs from G or whose inner length differs
\* from S, makes the call raise ValueError from its own shape check, before
\* the signals are flattened, with no pool and no invocation of the routine.
C4_FailFast3d ==
    fn = "3d" =>
        LET mismatch ==
                \/ override.kind = "list" /\ Len(override.refs) # GroupCount
                \/ override.kind = "nested" /\ Len(override.refs) # GroupCount
                \/ override.kind = "nested" /\ Len(override.refs[1]) # BatchSize
        IN  mismatch =>
                /\ pc = "raised"
                /\ err.type = "ValueError"
                /\ err.line \in {164, 171}
                /\ sigs_2d = <<>>
                /\ tasks = <<>>
                /\ pool = "none"
                /\ taken = 0
                /\ DOMAIN calls = {}

\* a 3d call has raised on a nested override right in its outer length and
\* wrong in its inner length
C4_Witness ==
    /\ fn = "3d"
    /\ pc = "raised"
    /\ err = ValueErrorAt(171)
    /\ override.kind = "nested"
    /\ Len(override.refs) = GroupCount
    /\ GroupCount >= 2
    /\ Len(override.refs[1]) = BatchSize + 1

\* C5: every invocation of the routine made by a compute_features_2d call is
\* for signal i with the mapping of position i of a list override (less its
\* return_samples entry), with the single mapping of a dict override, and with
\* the empty mapping when there is no override.
C5_Aligned2d ==
    fn = "2d" =>
        \A i \in DOMAIN calls :
            /\ calls[i].sig = sigs[i]
            /\ calls[i].kwargs = ExpectedKwargs2d(i)

\* all signals of a 2d call with a list of three or more distinct mappings
\* were invoked, and the last one was not the last to finish
C5_Witness ==
    /\ fn = "2d"
    /\ override.kind = "list"
    /\ Len(sigs) >= 3
    /\ DOMAIN calls = 1..Len(sigs)
    /\ Len(finish_order) = Len(sigs)
    /\ finish_order[Len(sigs)] # Len(sigs)
    /\ \A i, j \in DOMAIN calls : i # j => calls[i].kwargs # calls[j].kwargs

\* C6: for a group of shape (G, S, N) and a 1-D or nested override that passes
\* validation, the per-signal sequence handed to the dispatcher has G*S
\* entries, and entry g*S + s holds signal (g, s) with override[g] (1-D) or
\* override[g][s] (nested), less its return_samples entry.
C6_Broadcast3d ==
    (fn = "3d" /\ override.kind \in {"list", "nested"} /\ err.type # "ValueError") =>
        /\ Len(tasks) = GroupCount * BatchSize
        /\ \A g \in 1..GroupCount, s \in 1..BatchSize :
              tasks[(g - 1) * BatchSize + s].args = <<sigs[g][s], ExpectedKwargs3d(g, s)>>

\* a 3d call on two groups of two signals with a 1-D list has dispatched
C6_Witness ==
    /\ fn = "3d"
    /\ override.kind = "list"
    /\ GroupCount = 2
    /\ BatchSize = 2
    /\ Len(tasks) = 4
    /\ DOMAIN calls = 1..4

\* C7: every invocation of the routine, in a 2d or a 3d call and for every
\* override shape, receives the caller's return_samples flag, and the mapping
\* passed to it has no return_samples entry.
C7_FlagIsAuthority ==
    \A i \in DOMAIN calls :
        /\ calls[i].return_samples = return_samples
        /\ "return_samples" \notin DOMAIN calls[i].kwargs

\* the routine was invoked for a signal whose mapping, in a nested override,
\* was given with a return_samples entry contradicting the caller's flag
C7_Witness ==
    /\ fn = "3d"
    /\ override.kind = "nested"
    /\ return_samples
    /\ \E i \in DOMAIN calls :
          LET m == override.given[Concat(override.refs)[i]]
          IN  "return_samples" \in DOMAIN m /\ m["return_samples"] = 0

\* C8: a call in whose batch the routine raises for some signal never returns
\* a result list: it cannot take the return path, it can always go on towards
\* the raise, and once it has raised no feature or sample list exists.
C8_FailureAborts ==
    /\ (pc = "returned") => (bad \cap SignalSet = {})
    /\ (pc = "collect" /\ bad \cap SignalSet # {}) =>
          /\ ~ENABLED Return
          /\ ENABLED (WorkerTake \/ WorkerFinish \/ Collect)
    /\ (pc = "raised") =>
          /\ df_features = <<>>
          /\ df_samples = <<>>
          /\ err.type \in {"ValueError", "WorkerError"}
          /\ (bad \cap SignalSet = {}) => err.type = "ValueError"

\* the call raised the failure of one signal after a later signal had
\* already been computed successfully
C8_Witness ==
    /\ pc = "raised"
    /\ err.type = "WorkerError"
    /\ \E i, j \in DOMAIN cache : i < j /\ ~cache[i].ok /\ cache[j].ok
    /\ df_features = <<>>

\* every maximal run of TRUE in flags has at least m elements
RunsAtLeast(flags, m) ==
    \A i, j \in DOMAIN flags :
        ( /\ i <= j
          /\ \A k \in i..j : flags[k]
          /\ (i = 1 \/ ~flags[i - 1])
          /\ (j = Len(flags) \/ ~flags[j + 1]) ) => j - i + 1 >= m

\* C9: in the output of _min_consecutive_cycles every maximal run of true
\* flags has at least min_n_cycles elements, also a run that ends the sequence.
C9_MinRunEnforced ==
    bpc = "done" => RunsAtLeast(is_burst.values, min_n_cycles)

\* C10: the is_burst column detect_bursts_cycles writes is false for the first
\* and for the last cycle.
C10_BoundaryPolicy ==
    (bpc = "done" /\ strategy = "cycles") =>
        /\ column[1] = FALSE
        /\ column[Len(column)] = FALSE

\* C11: when a compute_features_2d or compute_features_3d call has returned,
\* the caller's signals and every mapping the caller supplied hold what they
\* held before the call.
C11_CallerInputsUnchanged ==
    (pc = "returned") =>
        /\ \A id \in DOMAIN override.given : heap[id] = override.given[id]
        /\ sigs = IF fn = "3d" THEN Sigs3d(GroupCount, BatchSize) ELSE Sigs2d(Len(sigs))

\* C12: the pool exists only after validation has passed and only while the
\* caller collects; when the call has ended, by a return or by the failure of
\* a signal, the pool is terminated and no worker holds a task.
C12_PoolScoped ==
    /\ (pool # "none") => (pc # "idle" /\ err.type # "ValueError")
    /\ (pool = "open") <=> (pc = "collect")
    /\ (running # {}) => (pool = "open")
    /\ (pc = "returned") => (pool = "terminated" /\ running = {})
    /\ (pc = "raised" /\ err.type = "WorkerError") => (pool = "terminated" /\ running = {})
    /\ (pc = "raised" /\ err.type = "ValueError") => (pool = "none" /\ running = {})

\* the call raised a signal's failure while tasks fetched by other workers
\* had not finished, and the pool is terminated
C12_Witness ==
    /\ pc = "raised"
    /\ err.type = "WorkerError"
    /\ pool = "terminated"
    /\ taken > Len(finish_order)
    /\ running = {}

\* the sequence _min_consecutive_cycles is called with
MinRunInput ==
    IF strategy = "cycles" THEN BoundaryPolicy(Series(candidates)).values
    ELSE candidates

\* position k of flags lies in a run of true flags of at least m elements
InRunOfAtLeast(flags, k, m) ==
    \E i \in 1..k, j \in k..Len(flags) :
        /\ j - i + 1 >= m
        /\ \A x \in i..j : flags[x]

\* C13: at every step of _min_consecutive_cycles and in its output, a flag
\* that is true was true in the candidate sequence: the step only clears.
C13_OnlyClears ==
    (bpc \in {"loop", "done"}) =>
        /\ Len(is_burst.values) = Len(MinRunInput)
        /\ \A k \in DOMAIN is_burst.values : is_burst.values[k] => MinRunInput[k]
        /\ \A k \in DOMAIN candidates : is_burst.values[k] => candidates[k]
        /\ (bpc = "done") => \A k \in DOMAIN column : column[k] => candidates[k]

\* the step has returned after clearing a short run and keeping a later one
C13_Witness ==
    /\ bpc = "done"
    /\ \E k \in DOMAIN candidates : MinRunInput[k] /\ ~is_burst.values[k]
    /\ \E k \in DOMAIN candidates : is_burst.values[k]

\* the four measures of cycle k all exceed their thresholds
ExceedsAll(k) == \A m \in Measures : table[k][m] > thresholds[m]

C15_NoShortRunInColumn ==
    (bpc = "done" /\ strategy = "cycles") => RunsAtLeast(column, min_n_cycles)

\* detect_bursts_cycles cleared a short run that ended the table and kept an
\* earlier run
C15_Witness ==
    /\ bpc = "done"
    /\ strategy = "cycles"
    /\ min_n_cycles >= 2
    /\ candidates[Len(candidates)]
    /\ ~column[Len(column)]
    /\ \E k \in DOMAIN column : column[k]

\* C16: for a table of five cycles that all pass the four thresholds,
\* detect_bursts_cycles returns is_burst = [False, True, True, True, False]
\* with min_n_cycles = 3 and all false with min_n_cycles = 4.
C16_FiveCycleScenario ==
    ( /\ bpc = "done"
      /\ strategy = "cycles"
      /\ Len(table) = 5
      /\ \A k \in DOMAIN table : ExceedsAll(k) ) =>
        /\ candidates = <<TRUE, TRUE, TRUE, TRUE, TRUE>>
        /\ (min_n_cycles = 3) => column = <<FALSE, TRUE, TRUE, TRUE, FALSE>>
        /\ (min_n_cycles = 4) => column = <<FALSE, FALSE, FALSE, FALSE, FALSE>>

\* C17: in the output of _min_consecutive_cycles every flag of an input run of
\* at least min_n_cycles elements is true, every flag false in the input is
\* false, and a flag differs from the input only inside an input run shorter
\* than min_n_cycles.
C17_LongRunsKept ==
    (bpc = "done") =>
        \A k \in DOMAIN MinRunInput :
            /\ (MinRunInput[k] /\ InRunOfAtLeast(MinRunInput, k, min_n_cycles))
                  => is_burst.values[k]
            /\ ~MinRunInput[k] => ~is_burst.values[k]
            /\ (is_burst.values[k] # MinRunInput[k]) =>
                  (MinRunInput[k] /\ ~InRunOfAtLeast(MinRunInput, k, min_n_cycles))

\* the step returned a sequence with a run of exactly min_n_cycles flags kept
\* and a shorter run cleared
C17_Witness ==
    /\ bpc = "done"
    /\ min_n_cycles >= 2
    /\ \E k \in DOMAIN MinRunInput :
          /\ is_burst.values[k]
          /\ InRunOfAtLeast(MinRunInput, k, min_n_cycles)
          /\ ~InRunOfAtLeast(MinRunInput, k, min_n_cycles + 1)
    /\ \E k \in DOMAIN MinRunInput : MinRunInput[k] /\ ~is_burst.values[k]

\* C18: at every step of the walk temp_cycle_count <= idx, and the keys
\* idx - 1 - c_rm of a clear lie in 0..idx-1 and are the positions of the run
\* of true flags that ends just before idx.
C18_ClearInRange ==
    (bpc = "loop") =>
        /\ temp_cycle_count >= 0
        /\ temp_cycle_count <= idx
        /\ idx <= Len(is_burst.values)
        /\ \A c \in DOMAIN ClearedKeys(idx, temp_cycle_count) :
              LET key == ClearedKeys(idx, temp_cycle_count)[c]
              IN  /\ key >= 0
                  /\ key <= idx - 1
                  /\ key >= idx - temp_cycle_count
                  /\ LabelPositions(is_burst, key) = {key + 1}
                  /\ is_burst.values[key + 1]

\* the walk stands at a false flag that ends a run of two or more flags which
\* is shorter than the minimum and starts at the first position
C18_Witness ==
    /\ bpc = "loop"
    /\ idx < Len(is_burst.values)
    /\ ~is_burst.values[idx + 1]
    /\ temp_cycle_count >= 2
    /\ temp_cycle_count = idx
    /\ temp_cycle_count < min_n_cycles

\* C19: an override that compute_features_3d's own check accepts reaches
\* compute_features_2d as a dict or as a list of G*S mappings, one per
\* flattened signal, so the length check of line 57 does not raise.
C19_ValidationAgrees ==
    (fn = "3d" /\ err.line \notin {164, 171}) =>
        /\ err # ValueErrorAt(58)
        /\ Len(sigs_2d) = GroupCount * BatchSize
        /\ Len(tasks) = Len(sigs_2d)
        /\ pc # "raised" => pool # "none"

\* a 3d call with a 1-D list on two groups of two signals passed both checks
C19_Witness ==
    /\ fn = "3d"
    /\ override.kind = "list"
    /\ GroupCount = 2
    /\ BatchSize = 2
    /\ pc = "collect"
    /\ Len(tasks) = 4

====
